---- MODULE Spec2Model ----
(***************************************************************************)
(* Voicing engine of Prelude-Zero (src/core/voicing.py): enumeration of    *)
(* voicings, parallel-motion detection, the voicing optimizer and the      *)
(* progression voice-leader, as state machines over MIDI pitches.          *)
(*                                                                         *)
(* Conventions.  A Python list or tuple is a sequence.  An Optional value  *)
(* is a sequence of length 0 (None) or 1 (the value).  A Python set, and   *)
(* the list made of it by list(set), is a set: the order of that list is   *)
(* the iteration order of CPython's hash table, which the model leaves     *)
(* open (min() over it is a choice among all minimal elements).            *)
(***************************************************************************)
EXTENDS Integers, Sequences, FiniteSets, TLC

VARIABLES
    ev_pcs, ev_low0, ev_high0,   \* enumerate_voicings: the caller's arguments
    ev_low, ev_high,             \* enumerate_voicings: low/high of the current frame
    ev_depth,                    \* enumerate_voicings: recursive calls made so far
    ev_pc,                       \* enumerate_voicings: "call" | "done"
    ev_ret,                      \* enumerate_voicings: the returned voicings
    hp_v1, hp_v2, hp_ret,        \* has_parallels: arguments and Optional result
    fb_args,                     \* find_best_voicing: the arguments, by parameter name
    fb_ret,                      \* find_best_voicing: Optional outcome
    vl_progression,              \* voice_lead_progression: the steps consumed so far
    vl_result,                   \* voice_lead_progression: the result list so far
    vl_prev_upper, vl_prev_bass, \* voice_lead_progression: the carry, Optional
    vl_pc,                       \* "loop" | "raised" | "returned" | "validated"
    vl_report,                   \* validate_voice_led_progression: Optional report
    en_args, en_ret,             \* _ensure_n_pcs / upper-class selection: arguments, Optional result
    va_measures, va_report,      \* validate_voice_led_progression as a call
    cp_v1, cp_v2,                \* counterpoint: the two voices, lists of Notes
    cp_ret                       \* counterpoint: Optional result of the rule applied

evars == <<ev_pcs, ev_low0, ev_high0, ev_low, ev_high, ev_depth, ev_pc, ev_ret>>
hvars == <<hp_v1, hp_v2, hp_ret>>
fvars == <<fb_args, fb_ret>>
pvars == <<vl_progression, vl_result, vl_prev_upper, vl_prev_bass, vl_pc, vl_report>>
nvars == <<en_args, en_ret>>
wvars == <<va_measures, va_report>>
cvars == <<cp_v1, cp_v2, cp_ret>>
vars == <<evars, hvars, fvars, pvars, nvars, wvars, cvars>>

----------------------------------------------------------------------------
(* Program constants *)

PERFECT_FIFTH == 7
PERFECT_OCTAVE == 0
UPPER_LOW == 55
UPPER_HIGH == 79
OCTAVE == 12

(* Bounds of the model *)

MaxVoices == 2       \* longest pitch-class list / chord drawn as an input
NumPcs == 4          \* pitch classes drawn: the first NumPcs of the circle of fifths
LowSpread == 6       \* low is drawn from UPPER_LOW .. UPPER_LOW + LowSpread
HighSpread == 34     \* high is drawn from UPPER_HIGH - HighSpread .. UPPER_HIGH
HpBase == 60         \* chords are drawn over HpBase + a drawn pitch class
BassBase == 48       \* lowest bass pitch drawn (C3)
BassStep == 7        \* bass pitches are drawn BassStep apart
NumBass == 3         \* bass pitches drawn: BassBase + BassStep * (0..NumBass)
HighStep == 13       \* find_best_voicing: high is drawn HighStep apart, downward
NumHighs == 2        \* find_best_voicing: UPPER_HIGH - HighStep * (0..NumHighs)
NumRoots == 4        \* harmonies drawn: roots on the first NumRoots + 1 fifths from C
MaxSteps == 2        \* longest progression voiced
MaxStart == 2        \* counterpoint: the voices start on a beat of 0..MaxStart
TightSpacing == 4    \* find_best_voicing: max_spacing is drawn from {TightSpacing, 12, 24}

----------------------------------------------------------------------------
(* Generic helpers standing for Python built-ins *)

None == <<>>
Some(x) == <<x>>

Abs(x) == IF x < 0 THEN -x ELSE x
Max(a, b) == IF a >= b THEN a ELSE b

\* range(n) as the index set of a sequence
Range(s) == {s[i] : i \in DOMAIN s}

\* sorted(seq): ascending, duplicates kept
Sorted(s) == SortSeq(s, LAMBDA a, b : a < b)

\* len(set(v)) == len(v)
NoDuplicates(v) == \A i, j \in DOMAIN v : i # j => v[i] # v[j]

\* all sequences over S of length 0..n
SeqsUpTo(S, n) == UNION {[1..k -> S] : k \in 0..n}

\* the pitch classes drawn as inputs
InputPcs == {(PERFECT_FIFTH * k) % OCTAVE : k \in 0..(NumPcs - 1)}
PcLists == SeqsUpTo(InputPcs, MaxVoices)

----------------------------------------------------------------------------
(* Section 1: enumeration *)

\* mutant: the loop runs one note past the upper bound
RECURSIVE MidiFromPastHigh(_, _)
MidiFromPastHigh(midi, high) ==
    IF midi <= high + 1 THEN <<midi>> \o MidiFromPastHigh(midi + OCTAVE, high) ELSE <<>>

\* the while loop of _pc_to_midi_options
RECURSIVE MidiFrom(_, _)
MidiFrom(midi, high) ==
    IF midi <= high THEN <<midi>> \o MidiFrom(midi + OCTAVE, high) ELSE <<>>

PcToMidiOptions(pc, low, high) ==
    MidiFrom(low + ((pc - low) % OCTAVE), high)

\* options = [_pc_to_midi_options(pc, low, high) for pc in pitch_classes]
Options(pitch_classes, low, high) ==
    [i \in DOMAIN pitch_classes |-> PcToMidiOptions(pitch_classes[i], low, high)]

\* mutant: the comparison is turned around, so the range is never widened
NeedsWideningNever(pitch_classes, low, high) ==
    LET options == Options(pitch_classes, low, high)
        valid_options == {i \in DOMAIN options : Len(options[i]) > 0}
    IN  Cardinality(valid_options) > Len(pitch_classes)

\* len(valid_options) < len(pitch_classes)
NeedsWidening(pitch_classes, low, high) ==
    LET options == Options(pitch_classes, low, high)
        valid_options == {i \in DOMAIN options : Len(options[i]) > 0}
    IN  Cardinality(valid_options) < Len(pitch_classes)

\* itertools.product(*options): every way to pick one entry per option list
RECURSIVE CartesianProduct(_)
CartesianProduct(options) ==
    IF Len(options) = 0 THEN {<<>>}
    ELSE LET n == Len(options)
             heads == CartesianProduct(SubSeq(options, 1, n - 1))
         IN  {h \o <<options[n][k]>> : h \in heads, k \in DOMAIN options[n]}

\* mutant: the duplicate-note test is left out
VoicingsInRangeKeepDuplicates(pitch_classes, low, high) ==
    {Sorted(combo) : combo \in CartesianProduct(Options(pitch_classes, low, high))}

\* the loop over the product: sort, drop combos with a duplicate note, add to the set
VoicingsInRange(pitch_classes, low, high) ==
    LET sortedCombos == {Sorted(combo) :
                            combo \in CartesianProduct(Options(pitch_classes, low, high))}
    IN  {v \in sortedCombos : NoDuplicates(v)}

\* enumerate_voicings, the recursion included
RECURSIVE EnumerateVoicings(_, _, _)
EnumerateVoicings(pitch_classes, low, high) ==
    IF NeedsWidening(pitch_classes, low, high)
    THEN EnumerateVoicings(pitch_classes, low - OCTAVE, high + OCTAVE)
    ELSE VoicingsInRange(pitch_classes, low, high)

----------------------------------------------------------------------------
(* Section 2: constraints *)

\* mutant: the d[i] != 0 guard is left out
ParallelPairNoMotionGuard(v1, v2, i, j) ==
    LET di == v2[i] - v1[i]
        dj == v2[j] - v1[j]
        interval == Abs(v1[j] - v1[i]) % OCTAVE
    IN  /\ di = dj
        /\ interval \in {PERFECT_OCTAVE, PERFECT_FIFTH}

\* the inner test of has_parallels for one voice pair
ParallelPair(v1, v2, i, j) ==
    LET di == v2[i] - v1[i]
        dj == v2[j] - v1[j]
        interval == Abs(v1[j] - v1[i]) % OCTAVE
    IN  /\ di = dj
        /\ di # 0
        /\ interval \in {PERFECT_OCTAVE, PERFECT_FIFTH}

\* for j in range(i + 1, n), returning True at the first hit
RECURSIVE ParallelsInnerLoop(_, _, _, _)
ParallelsInnerLoop(v1, v2, i, j) ==
    IF j > Len(v1) THEN FALSE
    ELSE IF ParallelPair(v1, v2, i, j) THEN TRUE
    ELSE ParallelsInnerLoop(v1, v2, i, j + 1)

\* for i in range(n)
RECURSIVE ParallelsOuterLoop(_, _, _)
ParallelsOuterLoop(v1, v2, i) ==
    IF i > Len(v1) THEN FALSE
    ELSE IF ParallelsInnerLoop(v1, v2, i, i + 1) THEN TRUE
    ELSE ParallelsOuterLoop(v1, v2, i + 1)

HasParallels(v1, v2) ==
    IF Len(v1) # Len(v2) THEN FALSE
    ELSE ParallelsOuterLoop(v1, v2, 1)

\* np.all(np.diff(v) <= max_gap), True for fewer than two voices
SpacingOk(voicing, max_gap) ==
    IF Len(voicing) < 2 THEN TRUE
    ELSE \A i \in 1..(Len(voicing) - 1) : voicing[i + 1] - voicing[i] <= max_gap

VoicesAboveBass(voicing, bass) == \A i \in DOMAIN voicing : voicing[i] > bass

----------------------------------------------------------------------------
(* Section 3: optimization *)

EffectiveLow(low, bass_midi) == Max(low, bass_midi + 1)

\* the emergency fallback: every class placed at or above mid, then sorted
Fallback(pitch_classes, effective_low, high) ==
    LET mid == (effective_low + high) \div 2
    IN  Sorted([i \in DOMAIN pitch_classes |->
                   mid + ((pitch_classes[i] - (mid % OCTAVE)) % OCTAVE)])

\* step 2 without the spacing test of line 188
HardFiltersSpacingDropped(candidates, bass_midi, max_spacing) ==
    LET above == {c \in candidates : VoicesAboveBass(c, bass_midi)}
    IN  IF above # {} THEN above ELSE candidates

\* step 2: spacing and above-bass, then above-bass alone, then every candidate
HardFilters(candidates, bass_midi, max_spacing) ==
    LET strict == {c \in candidates :
                      SpacingOk(c, max_spacing) /\ VoicesAboveBass(c, bass_midi)}
        above == {c \in candidates : VoicesAboveBass(c, bass_midi)}
    IN  IF strict # {} THEN strict
        ELSE IF above # {} THEN above
        ELSE candidates

\* prev_upper is not None and len(prev_upper) > 0
HasPrev(prev_upper) == prev_upper # None /\ Len(prev_upper[1]) > 0

\* prev_full: the previous bass sorted into the previous voicing, or the voicing as given
PrevFull(prev_upper, prev_bass) ==
    IF prev_bass # None THEN Sorted(<<prev_bass[1]>> \o prev_upper[1])
    ELSE prev_upper[1]

\* _full_chord(c)
FullChord(bass_midi, c) == Sorted(<<bass_midi>> \o c)

\* mutant: the parallel check looks at the upper voices only, without the basses
NoParallelsUpperOnly(valid, bass_midi, prev_upper, prev_bass) ==
    {c \in valid :
        \/ Len(c) # Len(prev_upper[1])
        \/ ~HasParallels(prev_upper[1], c)}

\* the no_parallels list of step 3
NoParallels(valid, bass_midi, prev_upper, prev_bass) ==
    LET prev_full == PrevFull(prev_upper, prev_bass)
    IN  {c \in valid :
            \/ Len(FullChord(bass_midi, c)) # Len(prev_full)
            \/ ~HasParallels(prev_full, FullChord(bass_midi, c))}

\* mutant: step 3 is skipped
FilterParallelsSkipped(valid, bass_midi, prev_upper, prev_bass) == valid

\* step 3: keep the candidates without parallels, or all when none is without
FilterParallels(valid, bass_midi, prev_upper, prev_bass) ==
    IF HasPrev(prev_upper)
    THEN LET no_parallels == NoParallels(valid, bass_midi, prev_upper, prev_bass)
         IN  IF no_parallels # {} THEN no_parallels ELSE valid
    ELSE valid

Sum(v) == LET RECURSIVE S(_)
              S(k) == IF k = 0 THEN 0 ELSE v[k] + S(k - 1)
          IN  S(Len(v))

\* v[-1] - v[0]
Span(v) == v[Len(v)] - v[1]

\* the score with a previous voicing, the weights of line 226 exchanged
ScoreMovementSpanFirst(c, prev_upper) ==
    IF Len(c) = Len(prev_upper[1])
    THEN LET l1 == Sum([i \in DOMAIN c |-> Abs(c[i] - prev_upper[1][i])])
         IN  l1 + Span(c) * 10
    ELSE Span(c) * 10

\* score with a previous voicing: total movement * 10 + span, or span * 10 when the
\* voice counts differ
ScoreMovement(c, prev_upper) ==
    IF Len(c) = Len(prev_upper[1])
    THEN LET l1 == Sum([i \in DOMAIN c |-> Abs(c[i] - prev_upper[1][i])])
         IN  l1 * 10 + Span(c)
    ELSE Span(c) * 10

\* score of a first chord, |mean(v) - (effective_low + high) / 2| + span / 2, times
\* 2 * len(v) so that it stays an integer (the order of two scores is unchanged)
ScoreCentered(c, effective_low, high) ==
    Abs(2 * Sum(c) - Len(c) * (effective_low + high)) + Len(c) * Span(c)

\* the score with the first-chord formula used when the voice counts differ as well
ScoreCenteredOnOtherCount(c, prev_upper, effective_low, high) ==
    IF HasPrev(prev_upper) /\ Len(c) = Len(prev_upper[1]) THEN ScoreMovement(c, prev_upper)
    ELSE ScoreCentered(c, effective_low, high)

Score(c, prev_upper, effective_low, high) ==
    IF HasPrev(prev_upper) THEN ScoreMovement(c, prev_upper)
    ELSE ScoreCentered(c, effective_low, high)

\* both score functions index v[-1]: IndexError on a voicing without notes
ScoreRaises(c) == Len(c) = 0

\* min(valid, key=score): a first minimal element in list order, the order being open
MinByScore(valid, prev_upper, effective_low, high) ==
    LET scores == {Score(c, prev_upper, effective_low, high) : c \in valid}
        least == CHOOSE x \in scores : \A y \in scores : x <= y
    IN  {c \in valid : Score(c, prev_upper, effective_low, high) = least}

\* find_best_voicing: the set of outcomes the call can have.  An outcome is
\* [kind, voicing] with kind "voicing" (step 5), "fallback" (the emergency
\* fallback) or "IndexError" (the exception leaves the function).
FindBestVoicing(pitch_classes, bass_midi, prev_upper, prev_bass, low, high, max_spacing) ==
    LET effective_low == EffectiveLow(low, bass_midi)
        candidates == EnumerateVoicings(pitch_classes, effective_low, high)
        valid == FilterParallels(HardFilters(candidates, bass_midi, max_spacing),
                                 bass_midi, prev_upper, prev_bass)
    IN  IF candidates = {}
        THEN {[kind |-> "fallback",
               voicing |-> Fallback(pitch_classes, effective_low, high)]}
        ELSE IF \E c \in valid : ScoreRaises(c)
        THEN {[kind |-> "IndexError", voicing |-> <<>>]}
        ELSE {[kind |-> "voicing", voicing |-> c] :
                 c \in MinByScore(valid, prev_upper, effective_low, high)}

----------------------------------------------------------------------------
(* Section 4: progression voice leading *)

\* sorted(set(xs)) for a set
RECURSIVE SortedSet(_)
SortedSet(S) ==
    IF S = {} THEN <<>>
    ELSE LET m == CHOOSE x \in S : \A y \in S : x <= y
         IN  <<m>> \o SortedSet(S \ {m})

\* [pc for pc in pcs if pc != bass_pc]
WithoutPc(pcs, bass_pc) == SelectSeq(pcs, LAMBDA pc : pc # bass_pc)

\* pcs[:n]
Take(pcs, n) == SubSeq(pcs, 1, n)

\* _ensure_n_pcs without the slice of line 264: every non-bass class is kept
EnsureNPcsUncut(pcs, n, bass_pc, all_pcs) ==
    IF Len(pcs) = n THEN pcs
    ELSE IF Len(pcs) > n
    THEN LET non_bass == WithoutPc(pcs, bass_pc)
         IN  IF Len(non_bass) >= n THEN non_bass ELSE Take(pcs, n)
    ELSE pcs \o [k \in 1..(n - Len(pcs)) |-> all_pcs[((k - 1) % Len(all_pcs)) + 1]]

\* _ensure_n_pcs
EnsureNPcs(pcs, n, bass_pc, all_pcs) ==
    IF Len(pcs) = n THEN pcs
    ELSE IF Len(pcs) > n
    THEN LET non_bass == WithoutPc(pcs, bass_pc)
         IN  IF Len(non_bass) >= n THEN Take(non_bass, n) ELSE Take(pcs, n)
    ELSE pcs \o [k \in 1..(n - Len(pcs)) |-> all_pcs[((k - 1) % Len(all_pcs)) + 1]]

\* lines 317-332 without step 2 (line 332): the classes are handed over as found
UpperPcsNotEnsured(all_pcs, bass_midi, n_upper) ==
    LET unique_pcs == SortedSet(Range(all_pcs))
        non_bass == WithoutPc(unique_pcs, bass_midi % OCTAVE)
    IN  IF Len(non_bass) < 2 THEN unique_pcs ELSE non_bass

\* lines 317-332: the pitch classes handed to the optimizer
UpperPcs(all_pcs, bass_midi, n_upper) ==
    LET unique_pcs == SortedSet(Range(all_pcs))
        bass_pc == bass_midi % OCTAVE
        non_bass == WithoutPc(unique_pcs, bass_pc)
        upper_pcs == IF Len(non_bass) < 2 THEN unique_pcs ELSE non_bass
    IN  EnsureNPcs(upper_pcs, n_upper, bass_pc, all_pcs)

\* parallels_detail without the elif branch of lines 119-121: fifths only
ParallelsDetailFifthsOnly(v1, v2) ==
    IF Len(v1) # Len(v2) THEN <<>>
    ELSE LET n == Len(v1)
             pairs == [k \in 1..(n * n) |-> <<((k - 1) \div n) + 1, ((k - 1) % n) + 1>>]
             hit(p) == /\ p[1] < p[2]
                       /\ v2[p[1]] - v1[p[1]] = v2[p[2]] - v1[p[2]]
                       /\ v2[p[1]] - v1[p[1]] # 0
                       /\ Abs(v1[p[2]] - v1[p[1]]) % OCTAVE = PERFECT_FIFTH
             hits == SelectSeq(pairs, hit)
         IN  [k \in DOMAIN hits |->
                 [kind |-> "5th", i |-> hits[k][1] - 1, j |-> hits[k][2] - 1,
                  d |-> v2[hits[k][1]] - v1[hits[k][1]]]]

\* parallels_detail: one entry per offending voice pair, in loop order (i, j from 0)
ParallelsDetail(v1, v2) ==
    IF Len(v1) # Len(v2) THEN <<>>
    ELSE LET n == Len(v1)
             pairs == [k \in 1..(n * n) |-> <<((k - 1) \div n) + 1, ((k - 1) % n) + 1>>]
             hit(p) == /\ p[1] < p[2]
                       /\ v2[p[1]] - v1[p[1]] = v2[p[2]] - v1[p[2]]
                       /\ v2[p[1]] - v1[p[1]] # 0
                       /\ Abs(v1[p[2]] - v1[p[1]]) % OCTAVE
                             \in {PERFECT_FIFTH, PERFECT_OCTAVE}
             hits == SelectSeq(pairs, hit)
         IN  [k \in DOMAIN hits |->
                 [kind |-> IF Abs(v1[hits[k][2]] - v1[hits[k][1]]) % OCTAVE = PERFECT_FIFTH
                           THEN "5th" ELSE "8ve",
                  i |-> hits[k][1] - 1, j |-> hits[k][2] - 1,
                  d |-> v2[hits[k][1]] - v1[hits[k][1]]]]

\* the errors validate_voice_led_progression collects for transitions i..len-1
RECURSIVE ValidateErrors(_, _)
ValidateErrors(measures, i) ==
    IF i >= Len(measures) THEN <<>>
    ELSE LET issues == ParallelsDetail(measures[i].full_chord, measures[i + 1].full_chord)
         IN  [k \in DOMAIN issues |-> [m |-> i, issue |-> issues[k]]]
                \o ValidateErrors(measures, i + 1)

\* the transitions between chords of equal length
CountedTransitions(measures) ==
    {i \in 1..(Len(measures) - 1) :
        Len(measures[i].full_chord) = Len(measures[i + 1].full_chord)}

\* validate_voice_led_progression (avg_movement_per_transition, the quotient of the
\* two other stats rounded to a tenth, is left out)
ValidateVoiceLedProgression(measures) ==
    LET errors == ValidateErrors(measures, 1)
        moved(i) == Sum([k \in DOMAIN measures[i].full_chord |->
                            Abs(measures[i + 1].full_chord[k] - measures[i].full_chord[k])])
        RECURSIVE Total(_)
        Total(i) == IF i <= 0 THEN 0
                    ELSE (IF i \in CountedTransitions(measures) THEN moved(i) ELSE 0)
                            + Total(i - 1)
    IN  [ok |-> Len(errors) = 0,
         errors |-> errors,
         stats |-> [transitions |-> Cardinality(CountedTransitions(measures)),
                    total_movement |-> Total(Len(measures) - 1)]]

----------------------------------------------------------------------------
(* Section 5: two-voice counterpoint rules (src/core/counterpoint.py).  A Note is *)
(* a record (midi, onset, duration), onsets in whole beats; an Issue is a record  *)
(* (severity, beat, rule, detail), detail holding the facts of the message.       *)

ERROR == "error"
WARNING == "warning"
INFO == "info"

CONSONANT_INTERVALS == {0, 3, 4, 7, 8, 9}
PERFECT_INTERVALS == {0, 7}

Note(midi, onset, duration) == [midi |-> midi, onset |-> onset, duration |-> duration]

Issue(severity, beat, rule, detail) ==
    [severity |-> severity, beat |-> beat, rule |-> rule, detail |-> detail]

\* interval_class
IntervalClass(midi1, midi2) == Abs(midi1 - midi2) % OCTAVE

\* is_consonant
IsConsonant(midi1, midi2) == IntervalClass(midi1, midi2) \in CONSONANT_INTERVALS

\* np.sign
Sign(x) == IF x > 0 THEN 1 ELSE IF x < 0 THEN -1 ELSE 0

\* {n.onset: n for n in v}.get(t): the last note of v that starts at t, Optional
NoteAt(v, t) ==
    LET at == {i \in DOMAIN v : v[i].onset = t}
    IN  IF at = {} THEN None ELSE Some(v[CHOOSE i \in at : \A j \in at : j <= i])

\* the loop of _align_simultaneous with last_v1/last_v2 never updated
RECURSIVE AlignFromNoCarry(_, _, _, _, _, _)
AlignFromNoCarry(v1, v2, onsets, k, last1, last2) ==
    IF k > Len(onsets) THEN <<>>
    ELSE <<<<NoteAt(v1, onsets[k]), NoteAt(v2, onsets[k])>>>>
            \o AlignFromNoCarry(v1, v2, onsets, k + 1, last1, last2)

\* the loop of _align_simultaneous from timepoint k on, last1/last2 the last notes met
RECURSIVE AlignFrom(_, _, _, _, _, _)
AlignFrom(v1, v2, onsets, k, last1, last2) ==
    IF k > Len(onsets) THEN <<>>
    ELSE LET at1 == NoteAt(v1, onsets[k])
             at2 == NoteAt(v2, onsets[k])
             n1 == IF at1 = None THEN last1 ELSE at1
             n2 == IF at2 = None THEN last2 ELSE at2
         IN  <<<<n1, n2>>>> \o AlignFrom(v1, v2, onsets, k + 1, n1, n2)

\* _align_simultaneous with a carried note dropped once its duration has run out
AlignSimultaneousWhileSounding(v1, v2) ==
    LET onsets == SortedSet({v1[i].onset : i \in DOMAIN v1}
                                \cup {v2[i].onset : i \in DOMAIN v2})
        pairs == AlignFrom(v1, v2, onsets, 1, None, None)
        heard(n, t) == IF n # None /\ n[1].onset + n[1].duration <= t THEN None ELSE n
    IN  [k \in DOMAIN pairs |-> <<heard(pairs[k][1], onsets[k]), heard(pairs[k][2], onsets[k])>>]

\* _align_simultaneous: one pair of Optional notes per distinct onset, ascending
AlignSimultaneous(v1, v2) ==
    LET onsets == SortedSet({v1[i].onset : i \in DOMAIN v1}
                                \cup {v2[i].onset : i \in DOMAIN v2})
    IN  AlignFrom(v1, v2, onsets, 1, None, None)

\* the indices range(n) a loop visits, as 1..n in order
Indices(n) == [k \in 1..n |-> k]

\* both pairs i and i + 1 hold a note in both voices (the continue of the loops)
BothSound(pairs, i) ==
    /\ pairs[i][1] # None /\ pairs[i][2] # None
    /\ pairs[i + 1][1] # None /\ pairs[i + 1][2] # None

\* the movement of voice w between pairs i and i + 1
Movement(pairs, i, w) == pairs[i + 1][w][1].midi - pairs[i][w][1].midi

\* check_parallels, lines 102-107, with the direction test left out
ParallelAtAnyMotion(pairs, i) ==
    /\ BothSound(pairs, i)
    /\ LET int1 == IntervalClass(pairs[i][1][1].midi, pairs[i][2][1].midi)
           int2 == IntervalClass(pairs[i + 1][1][1].midi, pairs[i + 1][2][1].midi)
       IN  /\ int1 \in PERFECT_INTERVALS /\ int2 \in PERFECT_INTERVALS /\ int1 = int2
           /\ Movement(pairs, i, 1) # 0 /\ Movement(pairs, i, 2) # 0

\* check_parallels, lines 95-107: the condition under which transition i is flagged
ParallelAt(pairs, i) ==
    /\ BothSound(pairs, i)
    /\ LET int1 == IntervalClass(pairs[i][1][1].midi, pairs[i][2][1].midi)
           int2 == IntervalClass(pairs[i + 1][1][1].midi, pairs[i + 1][2][1].midi)
           d1 == Movement(pairs, i, 1)
           d2 == Movement(pairs, i, 2)
       IN  /\ int1 \in PERFECT_INTERVALS /\ int2 \in PERFECT_INTERVALS /\ int1 = int2
           /\ d1 # 0 /\ d2 # 0 /\ Sign(d1) = Sign(d2)

\* "8ve" if the interval class is 0 else "5th"
PerfectName(int) == IF int = 0 THEN "8ve" ELSE "5th"

\* check_parallels
CheckParallels(v1, v2) ==
    LET pairs == AlignSimultaneous(v1, v2)
        hits == SelectSeq(Indices(Len(pairs) - 1), LAMBDA i : ParallelAt(pairs, i))
    IN  [k \in DOMAIN hits |->
            LET i == hits[k]
            IN  Issue(ERROR, i - 1, "parallel_perfect",
                      <<PerfectName(IntervalClass(pairs[i][1][1].midi, pairs[i][2][1].midi)),
                        pairs[i][1][1].midi, pairs[i][2][1].midi,
                        pairs[i + 1][1][1].midi, pairs[i + 1][2][1].midi>>)]

\* check_direct_intervals, lines 134-146, with max() in the place of min()
DirectAtLargerMovement(pairs, i) ==
    /\ BothSound(pairs, i)
    /\ LET int2 == IntervalClass(pairs[i + 1][1][1].midi, pairs[i + 1][2][1].midi)
           d1 == Movement(pairs, i, 1)
           d2 == Movement(pairs, i, 2)
       IN  /\ int2 \in PERFECT_INTERVALS /\ d1 # 0 /\ d2 # 0
           /\ Sign(d1) = Sign(d2)
           /\ ~(Max(Abs(d1), Abs(d2)) <= 2)

\* check_direct_intervals, lines 134-146: the condition under which transition i is flagged
DirectAt(pairs, i) ==
    /\ BothSound(pairs, i)
    /\ LET int2 == IntervalClass(pairs[i + 1][1][1].midi, pairs[i + 1][2][1].midi)
           d1 == Movement(pairs, i, 1)
           d2 == Movement(pairs, i, 2)
           upper_step == (IF Abs(d1) <= Abs(d2) THEN Abs(d1) ELSE Abs(d2)) <= 2
       IN  /\ int2 \in PERFECT_INTERVALS /\ d1 # 0 /\ d2 # 0
           /\ Sign(d1) = Sign(d2)
           /\ ~upper_step

\* check_direct_intervals
CheckDirectIntervals(v1, v2) ==
    LET pairs == AlignSimultaneous(v1, v2)
        hits == SelectSeq(Indices(Len(pairs) - 1), LAMBDA i : DirectAt(pairs, i))
    IN  [k \in DOMAIN hits |->
            LET i == hits[k]
            IN  Issue(WARNING, i - 1, "direct_perfect",
                      <<PerfectName(IntervalClass(pairs[i + 1][1][1].midi,
                                                  pairs[i + 1][2][1].midi)),
                        pairs[i + 1][1][1].midi, pairs[i + 1][2][1].midi>>)]

\* check_consonance, lines 174-179: the condition under which pair i is flagged
DissonantAt(pairs, i, strong_beats) ==
    /\ pairs[i][1] # None /\ pairs[i][2] # None
    /\ LET n1 == pairs[i][1][1]
           n2 == pairs[i][2][1]
           beat_in_bar == n1.onset % 4
       IN  /\ beat_in_bar \in strong_beats
           /\ ~IsConsonant(n1.midi, n2.midi)

\* check_consonance
CheckConsonance(v1, v2, strong_beats) ==
    LET pairs == AlignSimultaneous(v1, v2)
        hits == SelectSeq(Indices(Len(pairs)), LAMBDA i : DissonantAt(pairs, i, strong_beats))
    IN  [k \in DOMAIN hits |->
            LET i == hits[k]
            IN  Issue(WARNING, i - 1, "dissonance_on_strong_beat",
                      <<IntervalClass(pairs[i][1][1].midi, pairs[i][2][1].midi),
                        pairs[i][1][1].midi, pairs[i][2][1].midi, pairs[i][1][1].onset>>)]

\* strong_beats = {0, 2} when the argument is None
DefaultStrongBeats == {0, 2}

\* check_crossing without the continue of lines 203-204: a missing note counts as
\* a note below every pitch
CheckCrossingWithoutSkip(upper, lower) ==
    LET pairs == AlignSimultaneous(upper, lower)
        crossed(i) == /\ pairs[i][2] # None
                      /\ \/ pairs[i][1] = None
                         \/ pairs[i][1][1].midi < pairs[i][2][1].midi
        hits == SelectSeq(Indices(Len(pairs)), crossed)
    IN  [k \in DOMAIN hits |->
            LET i == hits[k]
            IN  Issue(INFO, i - 1, "voice_crossing",
                      <<pairs[i][2][1].midi, pairs[i][2][1].onset>>)]

\* check_crossing
CheckCrossing(upper, lower) ==
    LET pairs == AlignSimultaneous(upper, lower)
        crossed(i) == /\ pairs[i][1] # None /\ pairs[i][2] # None
                      /\ pairs[i][1][1].midi < pairs[i][2][1].midi
        hits == SelectSeq(Indices(Len(pairs)), crossed)
    IN  [k \in DOMAIN hits |->
            LET i == hits[k]
            IN  Issue(INFO, i - 1, "voice_crossing",
                      <<pairs[i][1][1].midi, pairs[i][2][1].midi, pairs[i][1][1].onset>>)]

\* check_melody, first loop: the rule, if any, that flags the leap from note i
MelodicRule(voice, i) ==
    LET interval == Abs(voice[i + 1].midi - voice[i].midi)
    IN  IF interval = 6 THEN "melodic_tritone"
        ELSE IF interval > 12 THEN "melodic_large_leap"
        ELSE IF interval \in {10, 11} THEN "melodic_seventh"
        ELSE "none"

\* check_melody, second loop: the leap into note i is followed in the same direction
NoGapFill(voice, i) ==
    LET prev_interval == voice[i].midi - voice[i - 1].midi
        next_interval == voice[i + 1].midi - voice[i].midi
    IN  /\ Abs(prev_interval) > 4
        /\ next_interval # 0
        /\ Sign(next_interval) = Sign(prev_interval)

\* check_melody
CheckMelody(voice) ==
    LET leaps == SelectSeq(Indices(Len(voice) - 1), LAMBDA i : MelodicRule(voice, i) # "none")
        gaps == SelectSeq(Indices(Len(voice) - 1), LAMBDA i : i >= 2 /\ NoGapFill(voice, i))
    IN  [k \in DOMAIN leaps |->
            Issue(WARNING, leaps[k] - 1, MelodicRule(voice, leaps[k]),
                  <<voice[leaps[k]].midi, voice[leaps[k] + 1].midi>>)]
        \o [k \in DOMAIN gaps |->
               Issue(INFO, gaps[k] - 1, "no_gap_fill",
                     <<voice[gaps[k] - 1].midi, voice[gaps[k]].midi, voice[gaps[k] + 1].midi>>)]

\* the six rule outputs in the order validate_two_voices extends all_issues
AllIssues(v1, v2) ==
    CheckParallels(v1, v2) \o CheckDirectIntervals(v1, v2)
        \o CheckConsonance(v1, v2, DefaultStrongBeats) \o CheckCrossing(v1, v2)
        \o CheckMelody(v1) \o CheckMelody(v2)

\* [i for i in all_issues if i.severity == severity]
OfSeverity(all_issues, severity) == SelectSeq(all_issues, LAMBDA i : i.severity = severity)

\* validate_two_voices with ok computed over warnings as well
ValidateTwoVoicesStrict(v1, v2) ==
    LET all_issues == AllIssues(v1, v2)
        errors == OfSeverity(all_issues, ERROR)
    IN  [ok |-> Len(errors) = 0 /\ Len(OfSeverity(all_issues, WARNING)) = 0,
         errors |-> errors,
         warnings |-> OfSeverity(all_issues, WARNING),
         infos |-> OfSeverity(all_issues, INFO),
         total_issues |-> Len(all_issues)]

\* validate_two_voices (the printing under verbose is left out)
ValidateTwoVoices(v1, v2) ==
    LET all_issues == AllIssues(v1, v2)
        errors == OfSeverity(all_issues, ERROR)
    IN  [ok |-> Len(errors) = 0,
         errors |-> errors,
         warnings |-> OfSeverity(all_issues, WARNING),
         infos |-> OfSeverity(all_issues, INFO),
         total_issues |-> Len(all_issues)]

----------------------------------------------------------------------------
(* enumerate_voicings as a process: one step per (recursive) call *)

EvIdle ==
    /\ ev_pcs = <<>> /\ ev_low0 = 0 /\ ev_high0 = 0 /\ ev_low = 0 /\ ev_high = 0
    /\ ev_depth = 0 /\ ev_pc = "idle" /\ ev_ret = {}

HpIdle == hp_v1 = <<>> /\ hp_v2 = <<>> /\ hp_ret = None

FbIdle == fb_args = <<>> /\ fb_ret = None

VlIdle ==
    /\ vl_progression = <<>> /\ vl_result = <<>>
    /\ vl_prev_upper = None /\ vl_prev_bass = None
    /\ vl_pc = "idle" /\ vl_report = None

EnIdle == en_args = <<>> /\ en_ret = None

VaIdle == va_measures = <<>> /\ va_report = None

CpIdle == cp_v1 = <<>> /\ cp_v2 = <<>> /\ cp_ret = None

EvInit ==
    /\ ev_pcs \in PcLists
    /\ ev_low0 \in UPPER_LOW .. (UPPER_LOW + LowSpread)
    /\ ev_high0 \in (UPPER_HIGH - HighSpread) .. UPPER_HIGH
    /\ ev_low = ev_low0
    /\ ev_high = ev_high0
    /\ ev_depth = 0
    /\ ev_pc = "call"
    /\ ev_ret = {}

\* line 57: return enumerate_voicings(pitch_classes, low - 12, high + 12)
EvWiden ==
    /\ ev_pc = "call"
    /\ NeedsWidening(ev_pcs, ev_low, ev_high)
    /\ ev_low' = ev_low - OCTAVE
    /\ ev_high' = ev_high + OCTAVE
    /\ ev_depth' = ev_depth + 1
    /\ UNCHANGED <<ev_pcs, ev_low0, ev_high0, ev_pc, ev_ret, hvars, fvars, pvars, nvars, wvars, cvars>>

\* lines 59-66: build the set and return it
EvReturn ==
    /\ ev_pc = "call"
    /\ ~NeedsWidening(ev_pcs, ev_low, ev_high)
    /\ ev_ret' = VoicingsInRange(ev_pcs, ev_low, ev_high)
    /\ ev_pc' = "done"
    /\ UNCHANGED <<ev_pcs, ev_low0, ev_high0, ev_low, ev_high, ev_depth, hvars, fvars, pvars, nvars, wvars, cvars>>

EnumNext == EvWiden \/ EvReturn

\* a call that has started runs to its return: the interpreter does not stop
InitEnum == EvInit /\ HpIdle /\ FbIdle /\ VlIdle /\ EnIdle /\ VaIdle /\ CpIdle

SpecEnum == InitEnum /\ [][EnumNext]_vars /\ WF_vars(EnumNext)

----------------------------------------------------------------------------
(* has_parallels as a call: the arguments are drawn, one step applies it *)

HpPitches == {HpBase + pc : pc \in InputPcs} \cup {HpBase + OCTAVE}
HpChords == SeqsUpTo(HpPitches, MaxVoices)

HpInit ==
    /\ hp_v1 \in HpChords
    /\ hp_v2 \in HpChords
    /\ hp_ret = None

HpCall ==
    /\ hp_ret = None
    /\ hp_ret' = Some(HasParallels(hp_v1, hp_v2))
    /\ UNCHANGED <<hp_v1, hp_v2, evars, fvars, pvars, nvars, wvars, cvars>>

InitPar == HpInit /\ EvIdle /\ FbIdle /\ VlIdle /\ EnIdle /\ VaIdle /\ CpIdle

SpecPar == InitPar /\ [][HpCall]_vars

----------------------------------------------------------------------------
(* find_best_voicing as a call: the arguments are drawn, one step applies it *)

Basses == {BassBase + BassStep * k : k \in 0..NumBass}
FbHighs == {UPPER_HIGH - HighStep * k : k \in 0..NumHighs}

\* previous voicings: ascending chords over the drawn classes around HpBase, the
\* empty voicing included
PrevVoicings ==
    {v \in SeqsUpTo({HpBase + pc : pc \in InputPcs}, MaxVoices) :
        \A i \in 1..(Len(v) - 1) : v[i] < v[i + 1]}

PrevBasses == {BassBase, BassBase + BassStep}

FbInit ==
    /\ fb_ret = None
    /\ \E pcs \in PcLists, bass \in Basses, high \in FbHighs :
       \E pu \in {None} \cup {Some(v) : v \in PrevVoicings} :
       \E pb \in {None} \cup {Some(b) : b \in PrevBasses} :
          /\ pu = None => pb = None
          /\ fb_args = [pitch_classes |-> pcs, bass_midi |-> bass,
                        prev_upper |-> pu, prev_bass |-> pb,
                        low |-> UPPER_LOW, high |-> high, max_spacing |-> OCTAVE]

FbCall ==
    /\ fb_args # <<>>
    /\ fb_ret = None
    /\ \E r \in FindBestVoicing(fb_args.pitch_classes, fb_args.bass_midi,
                                fb_args.prev_upper, fb_args.prev_bass,
                                fb_args.low, fb_args.high, fb_args.max_spacing) :
          fb_ret' = Some(r)
    /\ UNCHANGED <<fb_args, evars, hvars, pvars, nvars, wvars, cvars>>

\* calls with a drawn max_spacing (tight, the default, two octaves), on the drawn
\* classes or the semitone pair under the fifth, without a previous chord or
\* after C4-G4 or C4-C#5 over C3
FbSpacingInit ==
    /\ fb_ret = None
    /\ \E pcs \in PcLists \cup {<<PERFECT_FIFTH - 1, PERFECT_FIFTH>>} :
       \E bass \in Basses, high \in FbHighs :
       \E max_spacing \in {TightSpacing, OCTAVE, 2 * OCTAVE} :
       \E prev \in {<<None, None>>,
                    <<Some(<<HpBase, HpBase + PERFECT_FIFTH>>), Some(BassBase)>>,
                    <<Some(<<HpBase, HpBase + OCTAVE + 1>>), Some(BassBase)>>} :
          fb_args = [pitch_classes |-> pcs, bass_midi |-> bass,
                     prev_upper |-> prev[1], prev_bass |-> prev[2],
                     low |-> UPPER_LOW, high |-> high, max_spacing |-> max_spacing]

InitFbv == FbInit /\ EvIdle /\ HpIdle /\ VlIdle /\ EnIdle /\ VaIdle /\ CpIdle

SpecFbv == InitFbv /\ [][FbCall]_vars

InitSpacing == FbSpacingInit /\ EvIdle /\ HpIdle /\ VlIdle /\ EnIdle /\ VaIdle /\ CpIdle

SpecSpacing == InitSpacing /\ [][FbCall]_vars

----------------------------------------------------------------------------
(* voice_lead_progression as a process: one step per loop iteration, then the    *)
(* validator on what it returned.  The harmonic-theory layer is outside: a step  *)
(* takes the chord tones of the Roman numeral (root first) and the bass pitch.   *)

NUpper == MaxVoices + 1

Roots == {(PERFECT_FIFTH * k) % OCTAVE : k \in 0..NumRoots}

\* major triads and dominant sevenths on the drawn roots, in chord-structure order
Harmonies ==
    {<<r, (r + 4) % OCTAVE, (r + 7) % OCTAVE>> : r \in Roots}
        \cup {<<r, (r + 4) % OCTAVE, (r + 7) % OCTAVE, (r + 10) % OCTAVE>> : r \in Roots}

\* line 352 left out: the carry stays None
CarryUpperDropped(best_upper) == None

\* line 352: prev_upper = list(best_upper)
CarryUpper(best_upper) == Some(best_upper)

\* the bass note is a chord tone, in octave 3
BassNotes(all_pcs) == {BassBase + all_pcs[i] : i \in DOMAIN all_pcs}

VlInit ==
    /\ vl_progression = <<>>
    /\ vl_result = <<>>
    /\ vl_prev_upper = None
    /\ vl_prev_bass = None
    /\ vl_pc = "loop"
    /\ vl_report = None

\* one iteration of the loop of voice_lead_progression
VlStep ==
    /\ vl_pc = "loop"
    /\ Len(vl_result) < MaxSteps
    /\ \E all_pcs \in Harmonies : \E bass_midi \in BassNotes(all_pcs) :
       \E r \in FindBestVoicing(UpperPcs(all_pcs, bass_midi, NUpper), bass_midi,
                                vl_prev_upper, vl_prev_bass,
                                UPPER_LOW, UPPER_HIGH, OCTAVE) :
          /\ vl_progression' = Append(vl_progression,
                                       [roman |-> all_pcs, bass |-> bass_midi])
          /\ IF r.kind = "IndexError"
             THEN /\ vl_pc' = "raised"
                  /\ UNCHANGED <<vl_result, vl_prev_upper, vl_prev_bass>>
             ELSE /\ vl_result' = Append(vl_result,
                                         [roman |-> all_pcs, bass |-> bass_midi,
                                          upper |-> r.voicing,
                                          full_chord |-> Sorted(<<bass_midi>> \o r.voicing)])
                  /\ vl_prev_upper' = CarryUpper(r.voicing)
                  /\ vl_prev_bass' = Some(bass_midi)
                  /\ vl_pc' = "loop"
    /\ UNCHANGED <<vl_report, evars, hvars, fvars, nvars, wvars, cvars>>

\* the progression is exhausted: return result
VlReturn ==
    /\ vl_pc = "loop"
    /\ vl_pc' = "returned"
    /\ UNCHANGED <<vl_progression, vl_result, vl_prev_upper, vl_prev_bass, vl_report, evars, hvars, fvars, nvars, wvars, cvars>>

\* validate_voice_led_progression on the returned list
VlValidate ==
    /\ vl_pc = "returned"
    /\ vl_report' = Some(ValidateVoiceLedProgression(vl_result))
    /\ vl_pc' = "validated"
    /\ UNCHANGED <<vl_progression, vl_result, vl_prev_upper, vl_prev_bass, evars, hvars, fvars, nvars, wvars, cvars>>

VlNext == VlStep \/ VlReturn \/ VlValidate

Init == VlInit /\ EvIdle /\ HpIdle /\ FbIdle /\ EnIdle /\ VaIdle /\ CpIdle

Spec == Init /\ [][VlNext]_vars

----------------------------------------------------------------------------
(* _ensure_n_pcs and the upper-class selection of voice_lead_progression (lines  *)
(* 315-332) as calls: the arguments are drawn, one step applies the function     *)

\* dominant ninths on the drawn roots, in chord-structure order
Ninths ==
    {<<r, (r + 4) % OCTAVE, (r + 7) % OCTAVE, (r + 10) % OCTAVE, (r + 14) % OCTAVE>> :
        r \in Roots}

EnInit ==
    /\ en_ret = None
    /\ \E pcs \in PcLists, n \in 0..(MaxVoices + 2), bass \in Basses :
       \E all_pcs \in Harmonies \cup Ninths :
          en_args = [pcs |-> pcs, n |-> n, bass_midi |-> bass, all_pcs |-> all_pcs]

\* _ensure_n_pcs(pcs, n, bass_pc, all_pcs)
EnCall ==
    /\ en_args # <<>>
    /\ en_ret = None
    /\ en_ret' = Some([fn |-> "_ensure_n_pcs",
                       value |-> EnsureNPcs(en_args.pcs, en_args.n,
                                            en_args.bass_midi % OCTAVE, en_args.all_pcs)])
    /\ UNCHANGED <<en_args, evars, hvars, fvars, pvars, wvars, cvars>>

\* lines 315-332 of voice_lead_progression on the harmony all_pcs over bass_midi
EnUpperCall ==
    /\ en_args # <<>>
    /\ en_ret = None
    /\ en_ret' = Some([fn |-> "upper_pcs",
                       value |-> UpperPcs(en_args.all_pcs, en_args.bass_midi, en_args.n)])
    /\ UNCHANGED <<en_args, evars, hvars, fvars, pvars, wvars, cvars>>

EnNext == EnCall \/ EnUpperCall

InitPcs == EnInit /\ EvIdle /\ HpIdle /\ FbIdle /\ VlIdle /\ VaIdle /\ CpIdle

SpecPcs == InitPcs /\ [][EnNext]_vars

----------------------------------------------------------------------------
(* validate_voice_led_progression as a call on any list of measures *)

\* full chords: ascending lists of one to MaxVoices of the drawn pitches
VaChords ==
    {c \in SeqsUpTo({HpBase + pc : pc \in InputPcs}, MaxVoices) :
        /\ Len(c) >= 1
        /\ \A i \in 1..(Len(c) - 1) : c[i] <= c[i + 1]}

VaInit ==
    /\ va_measures \in SeqsUpTo({[full_chord |-> c] : c \in VaChords}, MaxSteps)
    /\ va_report = None

VaCall ==
    /\ va_report = None
    /\ va_report' = Some(ValidateVoiceLedProgression(va_measures))
    /\ UNCHANGED <<va_measures, evars, hvars, fvars, pvars, nvars, cvars>>

InitVal == VaInit /\ EvIdle /\ HpIdle /\ FbIdle /\ VlIdle /\ EnIdle /\ CpIdle

SpecVal == InitVal /\ [][VaCall]_vars

----------------------------------------------------------------------------
(* The counterpoint rules as calls: two voices are drawn, one step applies a rule *)

\* the beats of a voice, counted from its start
CpSlots == 0..2

\* pitches of the first and of the second voice, around HpBase: between them
\* unisons, fifths, consonances and dissonances; within each, steps and leaps
CpPitches1 == {HpBase + k : k \in {0, 2, 6, 7}}
CpPitches2 == {HpBase + k : k \in {0, 7, 9, 10}}

\* the voices over the beats start + CpSlots: on each beat one note or none
CpVoices(pitches, start) ==
    {LET slots == [k \in 1..Cardinality(CpSlots) |-> k - 1]
         sounding == SelectSeq(slots, LAMBDA k : f[k] # 0)
     IN  [i \in DOMAIN sounding |-> Note(f[sounding[i]], start + sounding[i], 1)] :
        f \in [CpSlots -> pitches \cup {0}]}

CpInit ==
    /\ cp_ret = None
    /\ \E start \in 0..MaxStart :
          /\ cp_v1 \in CpVoices(CpPitches1, start)
          /\ cp_v2 \in CpVoices(CpPitches2, start)

CpParallels ==
    /\ cp_ret = None
    /\ cp_ret' = Some([fn |-> "check_parallels", value |-> CheckParallels(cp_v1, cp_v2)])
    /\ UNCHANGED <<cp_v1, cp_v2, evars, hvars, fvars, pvars, nvars, wvars>>

CpDirect ==
    /\ cp_ret = None
    /\ cp_ret' = Some([fn |-> "check_direct_intervals",
                       value |-> CheckDirectIntervals(cp_v1, cp_v2)])
    /\ UNCHANGED <<cp_v1, cp_v2, evars, hvars, fvars, pvars, nvars, wvars>>

\* check_consonance(v1, v2): strong_beats is None
CpConsonance ==
    /\ cp_ret = None
    /\ cp_ret' = Some([fn |-> "check_consonance",
                       value |-> CheckConsonance(cp_v1, cp_v2, DefaultStrongBeats)])
    /\ UNCHANGED <<cp_v1, cp_v2, evars, hvars, fvars, pvars, nvars, wvars>>

CpValidate ==
    /\ cp_ret = None
    /\ cp_ret' = Some([fn |-> "validate_two_voices",
                       value |-> ValidateTwoVoices(cp_v1, cp_v2)])
    /\ UNCHANGED <<cp_v1, cp_v2, evars, hvars, fvars, pvars, nvars, wvars>>

\* check_crossing(v1, v2): the first voice is the upper one
CpCrossing ==
    /\ cp_ret = None
    /\ cp_ret' = Some([fn |-> "check_crossing", value |-> CheckCrossing(cp_v1, cp_v2)])
    /\ UNCHANGED <<cp_v1, cp_v2, evars, hvars, fvars, pvars, nvars, wvars>>

CpNext == CpParallels \/ CpDirect \/ CpConsonance \/ CpValidate \/ CpCrossing

InitCp == CpInit /\ EvIdle /\ HpIdle /\ FbIdle /\ VlIdle /\ EnIdle /\ VaIdle

SpecCp == InitCp /\ [][CpNext]_vars

----------------------------------------------------------------------------
(* The alignment of two voices with independent rhythms and note lengths *)

\* the number of notes of a voice, its onsets and its note lengths
AlLengths == 0..2
AlOnsets == 0..2
AlDurations == {1, 2}

\* pitches of the first and of the second voice: a step apart within a voice,
\* a fifth or a sixth between the voices
AlPitches1 == {HpBase + PERFECT_FIFTH, HpBase + PERFECT_FIFTH + 2}
AlPitches2 == {HpBase, HpBase + 2}

\* the melodic lines over the pitches: notes in order of non-decreasing onset
AlVoices(pitches) ==
    UNION {{v \in [1..n -> [midi : pitches, onset : AlOnsets, duration : AlDurations]] :
                \A i \in 1..(n - 1) : v[i].onset <= v[i + 1].onset} : n \in AlLengths}

AlInit ==
    /\ cp_ret = None
    /\ cp_v1 \in AlVoices(AlPitches1)
    /\ cp_v2 \in AlVoices(AlPitches2)

CpAlign ==
    /\ cp_ret = None
    /\ cp_ret' = Some([fn |-> "_align_simultaneous", value |-> AlignSimultaneous(cp_v1, cp_v2)])
    /\ UNCHANGED <<cp_v1, cp_v2, evars, hvars, fvars, pvars, nvars, wvars>>

AlNext == CpAlign \/ CpParallels \/ CpDirect \/ CpConsonance \/ CpCrossing \/ CpValidate

InitAl == AlInit /\ EvIdle /\ HpIdle /\ FbIdle /\ VlIdle /\ EnIdle /\ VaIdle

SpecAl == InitAl /\ [][AlNext]_vars

----------------------------------------------------------------------------
(* One transition between two two-voice chords, seen by both parallel detectors *)

\* pitches of either voice: steps, fifths, and a ninth and a thirteenth above HpBase
TrPitches == {HpBase + k : k \in {0, 2, PERFECT_FIFTH, 9, OCTAVE + 2, OCTAVE + 9}}

\* the chords (a1, a2) and (b1, b2) as voicings and as two voices, a note per beat
TrInit ==
    /\ hp_ret = None
    /\ cp_ret = None
    /\ \E a1 \in TrPitches, a2 \in TrPitches, b1 \in TrPitches, b2 \in TrPitches :
          /\ hp_v1 = <<a1, a2>>
          /\ hp_v2 = <<b1, b2>>
          /\ cp_v1 = <<Note(a1, 0, 1), Note(b1, 1, 1)>>
          /\ cp_v2 = <<Note(a2, 0, 1), Note(b2, 1, 1)>>

TrNext == HpCall \/ CpParallels \/ CpDirect

InitTr == TrInit /\ EvIdle /\ FbIdle /\ VlIdle /\ EnIdle /\ VaIdle

SpecTr == InitTr /\ [][TrNext]_vars

----------------------------------------------------------------------------
(* Claims about enumerate_voicings *)

\* pc has a realization in [lo, hi]
HasRealization(pc, lo, hi) == \E p \in lo..hi : p % 12 = pc

StrictlyAscending(v) == \A i \in 1..(Len(v) - 1) : v[i] < v[i + 1]

\* v realizes the classes pcs, one pitch per list entry
Realizes(v, pcs) ==
    /\ Len(v) = Len(pcs)
    /\ \E sigma \in [DOMAIN pcs -> DOMAIN pcs] :
          /\ \A i, j \in DOMAIN pcs : i # j => sigma[i] # sigma[j]
          /\ \A i \in DOMAIN pcs : v[sigma[i]] % 12 = pcs[i]

\* every way to choose one pitch of [lo, hi] per entry of pcs, all chosen pitches different
Choices(pcs, lo, hi) ==
    LET pool == {p \in lo..hi : \E i \in DOMAIN pcs : p % 12 = pcs[i]}
    IN  {f \in [DOMAIN pcs -> pool] :
            /\ \A i \in DOMAIN pcs : f[i] % 12 = pcs[i]
            /\ \A i, j \in DOMAIN pcs : i # j => f[i] # f[j]}

EvNoWideningNeeded == \A i \in DOMAIN ev_pcs : HasRealization(ev_pcs[i], ev_low0, ev_high0)

\* C7: when every input pitch class has a realization in [low, high], the voicings
\* returned by enumerate_voicings are exactly the strictly ascending tuples that pick
\* one in-range pitch per input class with no pitch picked twice: each returned tuple
\* is one, and each such pick is returned.
C7_EnumerationExact ==
    (ev_pc = "done" /\ EvNoWideningNeeded) =>
        /\ \A v \in ev_ret :
              /\ StrictlyAscending(v)
              /\ Realizes(v, ev_pcs)
              /\ \A i \in DOMAIN v : v[i] \in ev_low0..ev_high0
        /\ \A f \in Choices(ev_pcs, ev_low0, ev_high0) :
              \E v \in ev_ret : Range(v) = Range(f)

\* a call with a doubled class and two octave placements returned several voicings
C7_Witness ==
    /\ ev_pc = "done" /\ EvNoWideningNeeded
    /\ Len(ev_pcs) = 2 /\ ev_pcs[1] = ev_pcs[2]
    /\ Cardinality(ev_ret) >= 3

C9_Terminates ==
    /\ <>(ev_pc = "done")
    /\ [](/\ ev_low = ev_low0 - 12 * ev_depth
          /\ ev_high = ev_high0 + 12 * ev_depth
          /\ ev_depth > 0 => (ev_high - 12) - (ev_low + 12) + 1 < 12
          /\ (ev_pc = "done" /\ NoDuplicates(ev_pcs)) => ev_ret # {})

\* a call with low > high returned candidates after two widenings
C9_Witness ==
    /\ ev_pc = "done" /\ ev_low0 > ev_high0 /\ ev_depth = 2
    /\ Len(ev_pcs) = 2 /\ ev_ret # {}

----------------------------------------------------------------------------
(* Claims about find_best_voicing *)

FbDone == fb_ret # None
FbKind == fb_ret[1].kind
FbVoicing == fb_ret[1].voicing

\* the candidates that survive the spacing/above-bass stage of the call
FbSurvivors ==
    HardFilters(EnumerateVoicings(fb_args.pitch_classes,
                                  EffectiveLow(fb_args.low, fb_args.bass_midi),
                                  fb_args.high),
                fb_args.bass_midi, fb_args.max_spacing)

\* c forms a parallel fifth or octave against the previous full chord of the call
FbParallelWithPrev(c) ==
    HasParallels(Sorted(<<fb_args.prev_bass[1]>> \o fb_args.prev_upper[1]),
                 Sorted(<<fb_args.bass_midi>> \o c))

FbHasPrevAndBass ==
    /\ fb_args.prev_upper # None
    /\ fb_args.prev_bass # None

\* C1: given a previous voicing and a previous bass, if some candidate surviving the
\* spacing/above-bass stage forms no parallel fifth or octave between the previous
\* full chord and its own full chord, then the full chord of the returned voicing
\* forms none either.
C1_AvoidsParallels ==
    (FbDone /\ FbKind = "voicing" /\ FbHasPrevAndBass) =>
        ((\E c \in FbSurvivors : ~FbParallelWithPrev(c)) => ~FbParallelWithPrev(FbVoicing))

\* a call in which the candidate nearest to the previous voicing formed a parallel with
\* it and a farther candidate without one was returned
C1_Witness ==
    /\ FbDone /\ FbKind = "voicing" /\ FbHasPrevAndBass
    /\ Len(FbVoicing) = 2
    /\ ~FbParallelWithPrev(FbVoicing)
    /\ \E c \in FbSurvivors :
          /\ FbParallelWithPrev(c)
          /\ ScoreMovement(c, fb_args.prev_upper)
                < ScoreMovement(FbVoicing, fb_args.prev_upper)

\* how often class pc occurs in the list of classes / among the classes of the pitches
CountPc(pcs, pc) == Cardinality({i \in DOMAIN pcs : pcs[i] = pc})
CountPitchPc(v, pc) == Cardinality({i \in DOMAIN v : v[i] % 12 = pc})

\* C3: find_best_voicing never raises; the result has len(pitch_classes) pitches whose
\* pitch classes are, as a multiset, the input pitch classes.
C3_NeverRaises ==
    FbDone =>
        /\ FbKind # "IndexError"
        /\ Len(FbVoicing) = Len(fb_args.pitch_classes)
        /\ \A pc \in 0..11 : CountPitchPc(FbVoicing, pc) = CountPc(fb_args.pitch_classes, pc)

\* C4: every pitch of the returned voicing is at least bass + 1, except when the
\* synthesized fallback is returned.
C4_AboveBass ==
    (FbDone /\ FbKind = "voicing") =>
        \A i \in DOMAIN FbVoicing : FbVoicing[i] >= fb_args.bass_midi + 1

\* C5: the returned voicing is strictly ascending on every path, the emergency
\* fallback included.
C5_StrictlyAscending ==
    (FbDone /\ FbKind # "IndexError") => StrictlyAscending(FbVoicing)

----------------------------------------------------------------------------
(* Claims about voice_lead_progression and its validator *)

\* the candidates that survived the spacing/above-bass stage at step k, recomputed from
\* the step's harmony and bass
VlSurvivors(k) ==
    HardFilters(EnumerateVoicings(UpperPcs(vl_result[k].roman, vl_result[k].bass, NUpper),
                                  EffectiveLow(UPPER_LOW, vl_result[k].bass), UPPER_HIGH),
                vl_result[k].bass, OCTAVE)

\* step k had no candidate at all and synthesized the fallback
VlFallback(k) ==
    EnumerateVoicings(UpperPcs(vl_result[k].roman, vl_result[k].bass, NUpper),
                      EffectiveLow(UPPER_LOW, vl_result[k].bass), UPPER_HIGH) = {}

\* every surviving candidate of step k forms a parallel against the full chord of k - 1
VlForced(k) ==
    \A c \in VlSurvivors(k) :
        HasParallels(vl_result[k - 1].full_chord, Sorted(<<vl_result[k].bass>> \o c))

VlParallelAt(i) == HasParallels(vl_result[i].full_chord, vl_result[i + 1].full_chord)

----------------------------------------------------------------------------
(* Claims about has_parallels *)

\* C10: for chords of equal length has_parallels is true exactly when some voice pair
\* i < j moves by the same nonzero displacement and stands a unison/octave or a fifth
\* apart (mod 12) in v1; it is false for chords of different lengths and for v against
\* itself, and true for (60, 67) -> (62, 69).
C10_ParallelsExact ==
    /\ hp_ret # None =>
          /\ hp_ret[1] =
                (/\ Len(hp_v1) = Len(hp_v2)
                 /\ \E i, j \in DOMAIN hp_v1 :
                       /\ i < j
                       /\ hp_v2[i] - hp_v1[i] = hp_v2[j] - hp_v1[j]
                       /\ hp_v2[i] # hp_v1[i]
                       /\ \/ hp_v1[j] >= hp_v1[i] /\ (hp_v1[j] - hp_v1[i]) % 12 \in {0, 7}
                          \/ hp_v1[j] < hp_v1[i] /\ (hp_v1[i] - hp_v1[j]) % 12 \in {0, 7})
          /\ hp_v1 = hp_v2 => hp_ret[1] = FALSE
          /\ Len(hp_v1) # Len(hp_v2) => hp_ret[1] = FALSE
          /\ (hp_v1 = <<60, 67>> /\ hp_v2 = <<62, 69>>) => hp_ret[1] = TRUE

\* the textbook parallel fifth C-G to D-A was checked and flagged
C10_Witness ==
    hp_v1 = <<60, 67>> /\ hp_v2 = <<62, 69>> /\ hp_ret = Some(TRUE)


----------------------------------------------------------------------------
(* Claims about _ensure_n_pcs and the upper-class selection *)

EnDone(fn) == en_ret # None /\ en_ret[1].fn = fn
EnValue == en_ret[1].value

\* C11: _ensure_n_pcs returns exactly n pitch classes, whether pcs is shorter than,
\* equal to or longer than n, for every bass class and every non-empty all_pcs; so
\* the classes handed to the optimizer are exactly n_upper
C11_ExactlyN ==
    en_ret # None => Len(EnValue) = en_args.n

\* a list longer than n that holds the bass class was cut to n > 0 classes
C11_Witness ==
    /\ EnDone("_ensure_n_pcs")
    /\ Len(en_args.pcs) > en_args.n
    /\ en_args.n > 0
    /\ en_args.bass_midi % OCTAVE \in Range(en_args.pcs)

\* the doubling priority of the claim for a triad all_pcs = (root, third, fifth)
RootFifthThird(all_pcs) == <<all_pcs[1], all_pcs[3], all_pcs[2]>>

\* C12: with fewer than n classes given, the result is the given classes followed by
\* doublings in the order root, fifth, third of the triad all_pcs, cycling
C12_RootFifthThird ==
    (EnDone("_ensure_n_pcs") /\ Len(en_args.pcs) < en_args.n /\ Len(en_args.all_pcs) = 3)
        => EnValue = en_args.pcs \o
              [k \in 1..(en_args.n - Len(en_args.pcs)) |->
                  RootFifthThird(en_args.all_pcs)[((k - 1) % 3) + 1]]

\* C13: for a harmony of more than n distinct classes, the classes handed to the
\* optimizer are the first n of all_pcs (chord-structure order) that differ from
\* the bass class; bass-class tones are kept only when fewer than n differ
C13_ChordStructureOrder ==
    (EnDone("upper_pcs") /\ Cardinality(Range(en_args.all_pcs)) > en_args.n)
        => LET bass_pc == en_args.bass_midi % OCTAVE
               non_bass == WithoutPc(en_args.all_pcs, bass_pc)
           IN  IF Len(non_bass) >= en_args.n
               THEN EnValue = Take(non_bass, en_args.n)
               ELSE EnValue = Take(en_args.all_pcs, en_args.n)

----------------------------------------------------------------------------
(* Claims about voice_lead_progression *)

Occurrences(s, x) == Cardinality({i \in DOMAIN s : s[i] = x})

\* t is s in ascending order: the same pitches as often, none above its successor
IsAscendingListOf(t, s) ==
    /\ \A x \in Range(s) \cup Range(t) : Occurrences(t, x) = Occurrences(s, x)
    /\ \A i \in 1..(Len(t) - 1) : t[i] <= t[i + 1]

\* C14: the returned list has one Voicing Result per progression step, in step
\* order; each has n_upper upper pitches and a full_chord that is the ascending
\* list of its bass and upper pitches, n_upper + 1 long
C14_OneResultPerStep ==
    vl_pc \in {"returned", "validated"} =>
        /\ Len(vl_result) = Len(vl_progression)
        /\ \A k \in DOMAIN vl_result :
              /\ vl_result[k].roman = vl_progression[k].roman
              /\ vl_result[k].bass = vl_progression[k].bass
              /\ Len(vl_result[k].upper) = NUpper
              /\ Len(vl_result[k].full_chord) = NUpper + 1
              /\ IsAscendingListOf(vl_result[k].full_chord,
                                   <<vl_result[k].bass>> \o vl_result[k].upper)

\* a progression of MaxSteps different steps was voiced and returned, the first a
\* triad (one class doubled), the second a seventh chord
C14_Witness ==
    /\ vl_pc = "returned"
    /\ Len(vl_result) = MaxSteps
    /\ Len(vl_progression[1].roman) = 3
    /\ Len(vl_progression[2].roman) = 4

\* what one iteration appends for the step (all_pcs, bass_midi) after the results prev
StepResults(all_pcs, bass_midi, prev) ==
    LET prev_upper == IF prev = <<>> THEN None ELSE Some(prev[Len(prev)].upper)
        prev_bass == IF prev = <<>> THEN None ELSE Some(prev[Len(prev)].bass)
        outcomes == FindBestVoicing(UpperPcs(all_pcs, bass_midi, NUpper), bass_midi,
                                    prev_upper, prev_bass, UPPER_LOW, UPPER_HIGH, OCTAVE)
    IN  {[roman |-> all_pcs, bass |-> bass_midi, upper |-> r.voicing,
          full_chord |-> Sorted(<<bass_midi>> \o r.voicing)] :
            r \in {o \in outcomes : o.kind # "IndexError"}}

----------------------------------------------------------------------------
(* Claims about validate_voice_led_progression *)

\* the offending voice pairs of measures: <<m, i, j>> when chords m and m + 1 are
\* equally long and voices i < j, an interval class 0 or 7 apart in chord m, are
\* displaced by the same nonzero amount
VaOffending(measures) ==
    {t \in (1..(Len(measures) - 1)) \X (1..MaxVoices + 1) \X (1..MaxVoices + 1) :
        LET c1 == measures[t[1]].full_chord
            c2 == measures[t[1] + 1].full_chord
        IN  /\ Len(c1) = Len(c2)
            /\ t[2] < t[3] /\ t[3] <= Len(c1)
            /\ Abs(c1[t[3]] - c1[t[2]]) % 12 \in {0, 7}
            /\ c2[t[2]] - c1[t[2]] = c2[t[3]] - c1[t[3]]
            /\ c2[t[2]] # c1[t[2]]}

\* C16: ok is true exactly when no transition between equally long full chords has
\* an offending voice pair; errors holds exactly one entry per offending voice pair
\* per transition, so none for a transition between chords of different lengths
C16_OneErrorPerPair ==
    va_report # None =>
        LET report == va_report[1]
            where(e) == <<e.m, e.issue.i + 1, e.issue.j + 1>>
        IN  /\ report.ok <=> VaOffending(va_measures) = {}
            /\ Len(report.errors) = Cardinality(VaOffending(va_measures))
            /\ {where(report.errors[k]) : k \in DOMAIN report.errors}
                  = VaOffending(va_measures)

\* the textbook parallel fifth C-G to D-A gave exactly one error
C16_Witness ==
    /\ va_measures = <<[full_chord |-> <<60, 67>>], [full_chord |-> <<62, 69>>]>>
    /\ va_report # None
    /\ ~va_report[1].ok
    /\ Len(va_report[1].errors) = 1

----------------------------------------------------------------------------
(* Claims about the counterpoint rules *)

CpDone(fn) == cp_ret # None /\ cp_ret[1].fn = fn
CpValue == cp_ret[1].value

\* the distinct onsets of the two voices, ascending: the aligned timepoints
CpOnsets ==
    SortedSet({cp_v1[i].onset : i \in DOMAIN cp_v1} \cup {cp_v2[i].onset : i \in DOMAIN cp_v2})

\* the note voice v sounds at onset t: the one that starts at t, else the latest
\* one that started before t; <<>> when none has started yet
Sounding(v, t) ==
    LET started == {i \in DOMAIN v : v[i].onset <= t}
    IN  IF started = {} THEN <<>>
        ELSE <<v[CHOOSE i \in started : \A j \in started : v[j].onset <= v[i].onset]>>

\* the interval class of two pitches: the distance in semitones, octaves removed
Ic(p, q) == CHOOSE c \in 0..11 : \E o \in 0..10 : p - q = 12 * o + c \/ q - p = 12 * o + c

\* timepoints k and k + 1 (from 1) form a parallel perfect interval
CpParallelAt(k) ==
    LET a1 == Sounding(cp_v1, CpOnsets[k])
        a2 == Sounding(cp_v2, CpOnsets[k])
        b1 == Sounding(cp_v1, CpOnsets[k + 1])
        b2 == Sounding(cp_v2, CpOnsets[k + 1])
    IN  /\ a1 # <<>> /\ a2 # <<>>
        /\ Ic(a1[1].midi, a2[1].midi) \in {0, 7}
        /\ Ic(b1[1].midi, b2[1].midi) = Ic(a1[1].midi, a2[1].midi)
        /\ \/ b1[1].midi > a1[1].midi /\ b2[1].midi > a2[1].midi
           \/ b1[1].midi < a1[1].midi /\ b2[1].midi < a2[1].midi

\* each voice has a note on every beat from 0 up to its last
OnEveryBeatFromZero(v) == \A i \in DOMAIN v : v[i].onset = i - 1

C18_PartitionBySeverity ==
    CpDone("validate_two_voices") =>
        LET r == CpValue
            all == AllIssues(cp_v1, cp_v2)
        IN  /\ \A k \in DOMAIN r.errors : r.errors[k].severity = "error"
            /\ \A k \in DOMAIN r.warnings : r.warnings[k].severity = "warning"
            /\ \A k \in DOMAIN r.infos : r.infos[k].severity = "info"
            /\ \A x \in Range(all) :
                  Occurrences(all, x) = Occurrences(r.errors, x)
                      + Occurrences(r.warnings, x) + Occurrences(r.infos, x)
            /\ r.total_issues = Len(r.errors) + Len(r.warnings) + Len(r.infos)
            /\ r.total_issues = Len(all)
            /\ r.ok <=> r.errors = <<>>
            /\ r.errors = CheckParallels(cp_v1, cp_v2)

\* a validation that found an error, warnings and infos, and so is not ok
C18_Witness ==
    /\ CpDone("validate_two_voices")
    /\ CpValue.errors # <<>>
    /\ CpValue.warnings # <<>>
    /\ CpValue.infos # <<>>
    /\ ~CpValue.ok

\* C19: with the default strong beats, check_consonance flags an aligned timepoint
\* exactly when both voices sound there, the onset of the timepoint is 0 or 2
\* mod 4 and the interval class is dissonant, a carried-forward first-voice note
\* included
C19_FlagsByTimepointOnset ==
    CpDone("check_consonance") =>
        LET flagged ==
                {k \in 1..Len(CpOnsets) :
                    LET n1 == Sounding(cp_v1, CpOnsets[k])
                        n2 == Sounding(cp_v2, CpOnsets[k])
                    IN  /\ n1 # <<>> /\ n2 # <<>>
                        /\ CpOnsets[k] % 4 \in {0, 2}
                        /\ Ic(n1[1].midi, n2[1].midi) \notin {0, 3, 4, 7, 8, 9}}
        IN  /\ Len(CpValue) = Cardinality(flagged)
            /\ {CpValue[n].beat : n \in DOMAIN CpValue} = {k - 1 : k \in flagged}

\* timepoints k and k + 1 (from 1): a perfect interval reached by similar motion
\* in which both voices move by more than two semitones
CpDirectAt(k) ==
    LET a1 == Sounding(cp_v1, CpOnsets[k])
        a2 == Sounding(cp_v2, CpOnsets[k])
        b1 == Sounding(cp_v1, CpOnsets[k + 1])
        b2 == Sounding(cp_v2, CpOnsets[k + 1])
    IN  /\ a1 # <<>> /\ a2 # <<>>
        /\ Ic(b1[1].midi, b2[1].midi) \in {0, 7}
        /\ \/ b1[1].midi - a1[1].midi > 2 /\ b2[1].midi - a2[1].midi > 2
           \/ a1[1].midi - b1[1].midi > 2 /\ a2[1].midi - b2[1].midi > 2

BothSoundingAt(k) ==
    Sounding(cp_v1, CpOnsets[k]) # <<>> /\ Sounding(cp_v2, CpOnsets[k]) # <<>>

\* C21: the four pairwise rules report nothing for a timepoint at which a voice has
\* no note, nor for a transition that touches one, and still judge the other
\* timepoints: check_crossing flags exactly the timepoints at which both voices
\* sound and the first is below the second; an empty voice gives no issue
C21_MissingNoteSkipped ==
    (\/ CpDone("check_parallels") \/ CpDone("check_direct_intervals")
     \/ CpDone("check_consonance") \/ CpDone("check_crossing")) =>
        /\ \A n \in DOMAIN CpValue :
              /\ CpValue[n].beat + 1 \in 1..Len(CpOnsets)
              /\ BothSoundingAt(CpValue[n].beat + 1)
        /\ (cp_v1 = <<>> \/ cp_v2 = <<>>) => CpValue = <<>>
        /\ CpDone("check_crossing") =>
              /\ {CpValue[n].beat : n \in DOMAIN CpValue}
                    = {k - 1 : k \in {j \in 1..Len(CpOnsets) :
                                        /\ BothSoundingAt(j)
                                        /\ Sounding(cp_v1, CpOnsets[j])[1].midi
                                              < Sounding(cp_v2, CpOnsets[j])[1].midi}}
              /\ Len(CpValue) = Cardinality({CpValue[n].beat : n \in DOMAIN CpValue})

\* the first voice enters one beat after the second, below it: the first timepoint
\* has no pair and is skipped, the crossings after it are reported
C21_Witness ==
    /\ CpDone("check_crossing")
    /\ Len(cp_v1) = 2 /\ Len(cp_v2) = 3
    /\ cp_v1[1].onset = cp_v2[1].onset + 1
    /\ Len(CpValue) = 2
    /\ CpValue[1].beat = 1

----------------------------------------------------------------------------
(* Claims about the filters and the score of find_best_voicing *)

\* the candidates the call enumerates
FbCandidates ==
    EnumerateVoicings(fb_args.pitch_classes,
                      EffectiveLow(fb_args.low, fb_args.bass_midi), fb_args.high)

\* no two adjacent voices of c are more than max_spacing apart
FbSpaced(c) == \A i \in 1..(Len(c) - 1) : c[i + 1] - c[i] <= fb_args.max_spacing

\* every voice of c is above the bass of the call
FbAboveBass(c) == \A i \in 1..Len(c) : c[i] > fb_args.bass_midi

\* C22: if some enumerated candidate is both spaced and above the bass, so is the
\* returned voicing; otherwise, if some candidate is above the bass, so is the
\* returned voicing; in every case the returned voicing is an enumerated candidate
C22_StagedRelaxation ==
    (FbDone /\ FbKind = "voicing") =>
        LET both == {c \in FbCandidates : FbSpaced(c) /\ FbAboveBass(c)}
            above == {c \in FbCandidates : FbAboveBass(c)}
        IN  /\ FbVoicing \in FbCandidates
            /\ both # {} => FbVoicing \in both
            /\ (both = {} /\ above # {}) => FbVoicing \in above

\* no candidate met max_spacing: one above the bass with a wider gap was returned
C22_Witness ==
    /\ FbDone /\ FbKind = "voicing"
    /\ fb_args.prev_upper # None
    /\ \A c \in FbCandidates : ~(FbSpaced(c) /\ FbAboveBass(c))
    /\ FbAboveBass(FbVoicing)
    /\ ~FbSpaced(FbVoicing)

\* the candidates left after the spacing/above-bass stage and the parallel filter
FbRemaining ==
    FilterParallels(FbSurvivors, fb_args.bass_midi, fb_args.prev_upper, fb_args.prev_bass)

\* a previous voicing with as many voices as the candidates, at least one
FbSameVoiceCount ==
    /\ fb_args.prev_upper # None
    /\ Len(fb_args.prev_upper[1]) = Len(fb_args.pitch_classes)
    /\ Len(fb_args.pitch_classes) > 0

\* total voice movement from the previous voicing of the call to c
FbMovement(c) ==
    LET RECURSIVE Moved(_)
        Moved(i) == IF i = 0 THEN 0
                    ELSE Moved(i - 1) + (IF c[i] >= fb_args.prev_upper[1][i]
                                         THEN c[i] - fb_args.prev_upper[1][i]
                                         ELSE fb_args.prev_upper[1][i] - c[i])
    IN  Moved(Len(c))

\* highest minus lowest pitch of c
FbSpan(c) == c[Len(c)] - c[1]

C24_MovementDominates ==
    (FbDone /\ FbKind = "voicing" /\ FbSameVoiceCount) =>
        \A c \in FbRemaining :
            /\ FbMovement(c) >= FbMovement(FbVoicing)
            /\ FbMovement(c) = FbMovement(FbVoicing) => FbSpan(c) >= FbSpan(FbVoicing)

\* |mean pitch of c - midpoint of the searched range| + span / 2, times twice the
\* voice count (an integer; the order of two such scores is that of the scores)
FbCompactness(c) ==
    LET total == Sum(c)
        ends == EffectiveLow(fb_args.low, fb_args.bass_midi) + fb_args.high
        off == 2 * total - Len(c) * ends
    IN  (IF off >= 0 THEN off ELSE -off) + Len(c) * FbSpan(c)

\* C25: without a previous voicing, or with one of another voice count, the returned
\* voicing is a remaining candidate that minimises the distance of its mean pitch
\* from the midpoint of the range plus half its span, the same in both cases
C25_MinimisesCompactness ==
    (/\ FbDone /\ FbKind = "voicing"
     /\ \/ fb_args.prev_upper = None
        \/ Len(fb_args.prev_upper[1]) # Len(fb_args.pitch_classes)) =>
        /\ FbVoicing \in FbRemaining
        /\ \A c \in FbRemaining : FbCompactness(FbVoicing) <= FbCompactness(c)

\* the call has a previous voicing with at least one voice and another voice count
FbOtherVoiceCount ==
    /\ fb_args.prev_upper # None
    /\ Len(fb_args.prev_upper[1]) > 0
    /\ Len(fb_args.prev_upper[1]) # Len(fb_args.pitch_classes)

\* C25 as amended: without a previous voicing (None or without voices) the returned
\* voicing is a remaining candidate that minimises the distance of its mean pitch
\* from the midpoint of the range plus half its span; with a previous voicing of
\* another voice count it is a remaining candidate of the smallest span
C25_CompactnessByCase ==
    (FbDone /\ FbKind = "voicing") =>
        /\ (fb_args.prev_upper = None \/ Len(fb_args.prev_upper[1]) = 0) =>
              /\ FbVoicing \in FbRemaining
              /\ \A c \in FbRemaining : FbCompactness(FbVoicing) <= FbCompactness(c)
        /\ FbOtherVoiceCount =>
              /\ FbVoicing \in FbRemaining
              /\ \A c \in FbRemaining : FbSpan(FbVoicing) <= FbSpan(c)

\* after a previous voicing of another voice count two voices came back a tone
\* apart, although a remaining pair has the smaller first-chord score
C25_Witness ==
    /\ FbDone /\ FbKind = "voicing"
    /\ FbOtherVoiceCount
    /\ Len(FbVoicing) = 2
    /\ FbSpan(FbVoicing) = 2
    /\ \E c \in FbRemaining : FbCompactness(c) < FbCompactness(FbVoicing)

\* C29: with a previous voicing but no previous bass, if some surviving candidate
\* forms no parallel fifth or octave with the previous voicing, the returned
\* voicing forms none
C29_ParallelsWithoutPrevBass ==
    (/\ FbDone /\ FbKind = "voicing"
     /\ fb_args.prev_upper # None /\ fb_args.prev_bass = None) =>
        ((\E c \in FbSurvivors : ~HasParallels(fb_args.prev_upper[1], c))
            => ~HasParallels(fb_args.prev_upper[1], FbVoicing))
----------------------------------------------------------------------------
(* Claims about the alignment of two voices *)

\* the notes of v with the greatest onset not after t; {} when none has started
Latest(v, t) ==
    LET started == {i \in DOMAIN v : v[i].onset <= t}
    IN  {v[i] : i \in {i \in started : \A j \in started : v[j].onset <= v[i].onset}}

\* entry e of a pair is what voice v has at timepoint t
EntryOf(e, v, t) ==
    IF Latest(v, t) = {} THEN e = None ELSE e # None /\ e[1] \in Latest(v, t)

\* C26: _align_simultaneous returns exactly one pair per distinct onset of the two
\* voices, in strictly increasing order of onset; each entry of the pair for onset t
\* is that voice's note with the greatest onset <= t, and is None exactly when the
\* voice has no note with onset <= t
C26_OnePairPerOnset ==
    CpDone("_align_simultaneous") =>
        /\ Len(CpValue) = Cardinality({cp_v1[i].onset : i \in DOMAIN cp_v1}
                                          \cup {cp_v2[i].onset : i \in DOMAIN cp_v2})
        /\ Len(CpOnsets) = Len(CpValue)
        /\ \A k \in 1..(Len(CpOnsets) - 1) : CpOnsets[k] < CpOnsets[k + 1]
        /\ \A k \in DOMAIN CpValue :
              /\ EntryOf(CpValue[k][1], cp_v1, CpOnsets[k])
              /\ EntryOf(CpValue[k][2], cp_v2, CpOnsets[k])

\* three timepoints: the second voice has nothing at the first, and the first
\* voice's only note is carried to the third
C26_Witness ==
    /\ CpDone("_align_simultaneous")
    /\ Len(CpValue) = 3
    /\ Len(cp_v1) = 1
    /\ CpValue[1][2] = None
    /\ CpValue[3][1] = Some(cp_v1[1])
    /\ CpValue[3][2] # None

\* the voices that differ from v in note lengths only
Retimed(v) ==
    {[i \in DOMAIN v |-> [v[i] EXCEPT !.duration = d[i]]] : d \in [DOMAIN v -> AlDurations]}

\* an alignment with the note lengths left out: which note stands where
Untimed(pairs) ==
    LET bare(e) == IF e = None THEN None
                   ELSE Some([midi |-> e[1].midi, onset |-> e[1].onset])
    IN  [k \in DOMAIN pairs |-> <<bare(pairs[k][1]), bare(pairs[k][2])>>]

\* what call fn gives on the voices v1 and v2, the alignment without note lengths
CpResultOf(fn, v1, v2) ==
    CASE fn = "_align_simultaneous" -> Untimed(AlignSimultaneous(v1, v2))
      [] fn = "check_parallels" -> CheckParallels(v1, v2)
      [] fn = "check_direct_intervals" -> CheckDirectIntervals(v1, v2)
      [] fn = "check_consonance" -> CheckConsonance(v1, v2, DefaultStrongBeats)
      [] fn = "check_crossing" -> CheckCrossing(v1, v2)
      [] fn = "validate_two_voices" -> ValidateTwoVoices(v1, v2)

\* C27: the alignment and the issues of every rule depend on pitches and onsets
\* only: the same call on voices whose note lengths were changed gives what the
\* call gave
C27_DurationsDoNotMatter ==
    cp_ret # None =>
        LET fn == cp_ret[1].fn
            given == IF fn = "_align_simultaneous" THEN Untimed(CpValue) ELSE CpValue
        IN  \A w1 \in Retimed(cp_v1), w2 \in Retimed(cp_v2) : CpResultOf(fn, w1, w2) = given

\* a dissonance was flagged at the second timepoint against a note of the first
\* voice that had ended before it: held one beat from onset 0
C27_Witness ==
    /\ CpDone("check_consonance")
    /\ Len(cp_v1) = 1 /\ cp_v1[1].onset = 0 /\ cp_v1[1].duration = 1
    /\ Len(cp_v2) = 2 /\ cp_v2[2].onset = 2
    /\ \E n \in DOMAIN CpValue : CpValue[n].beat = 1
----------------------------------------------------------------------------
(* Claims about a single transition between two chords *)

\* the movement of the first and of the second voice over the transition
TrD1 == cp_v1[2].midi - cp_v1[1].midi
TrD2 == cp_v2[2].midi - cp_v2[1].midi

\* both voices move, in the same direction, onto a perfect fifth, octave or unison
TrSimilarArrival ==
    /\ TrD1 # 0 /\ TrD2 # 0
    /\ (TrD1 > 0) = (TrD2 > 0)
    /\ Ic(cp_v1[2].midi, cp_v2[2].midi) \in {PERFECT_OCTAVE, PERFECT_FIFTH}

\* the movement of the voice that is the higher one on arrival
TrUpperMovement == IF cp_v1[2].midi > cp_v2[2].midi THEN TrD1 ELSE TrD2

\* C28: a similar-motion arrival on a perfect fifth or octave in which the upper
\* voice moves by more than 2 semitones is flagged by check_direct_intervals,
\* whatever the lower voice's movement: unflagged only when the upper voice steps
C28_UpperLeapFlagged ==
    (/\ CpDone("check_direct_intervals")
     /\ TrSimilarArrival
     /\ cp_v1[2].midi # cp_v2[2].midi
     /\ Abs(TrUpperMovement) > 2) =>
        \E n \in DOMAIN CpValue : CpValue[n].rule = "direct_perfect" /\ CpValue[n].beat = 0

\* C30: has_parallels((a1, a2), (b1, b2)) is true exactly when check_parallels
\* flags the transition of the two one-note-per-beat voices, and every
\* 'parallel_perfect' error has both voices moving by the same signed amount
C30_DetectorsAgree ==
    /\ (hp_ret # None /\ CpDone("check_parallels")) => (hp_ret[1] <=> CpValue # <<>>)
    /\ CpDone("check_parallels") =>
          \A n \in DOMAIN CpValue : CpValue[n].rule = "parallel_perfect" => TrD1 = TrD2
====
